---- MODULE Spec2Model ----
(***************************************************************************)
(* Model of DocxToXmlConverter._extract_content and the helpers it calls   *)
(* (src/docx_to_xml_converter..py): the single forward pass that turns the *)
(* paragraphs of a Word document into an insertion-ordered dict            *)
(* header text -> {level, items}, where items is a forest of ListItem.     *)
(*                                                                         *)
(* Strings the code inspects (style names, paragraph text) are sequences   *)
(* of tokens, so that strip(), startswith() and the regular expressions    *)
(* are computed rather than assumed.  Python's None is the empty tuple and *)
(* a present value x is <<x>>.  ListItem objects live in `heap`, keyed by  *)
(* the 1-based position of the paragraph that created them, so that        *)
(* object identity and aliasing (list_stack and children refer to the same *)
(* objects) are explicit.                                                  *)
(***************************************************************************)
EXTENDS Integers, Sequences, FiniteSets, TLC

VARIABLES
    paras,                  \* the paragraphs of doc.Paragraphs consumed so far
    pc,                     \* "loop" | "done" | "raised"
    content,                \* the dict, as a sequence of entries in insertion order
    current_header,         \* None or <<text>>
    current_header_level,
    current_items,          \* list of ListItem (ids into heap)
    list_stack,             \* list of ListItem (ids into heap)
    heap                    \* ListItem objects created so far

vars == <<paras, pc, content, current_header, current_header_level,
          current_items, list_stack, heap>>

----------------------------------------------------------------------------
(* Bounds of the model *)

MaxParagraphs == 4
MaxListItems == 5
MaxListLevelNumber == 3

----------------------------------------------------------------------------
(* Python values *)

None == <<>>
Some(x) == <<x>>

\* truth value of an Optional[str]: None and '' are falsy
Truthy(h) == h /= None /\ h[1] /= <<>>

\* truth value of an Optional[ListItem]: a dataclass instance is always truthy
TruthyItem(li) == li /= None

Whitespace == {" ", "\r"}
DigitValue == [d \in {"1", "2", "3"} |-> CASE d = "1" -> 1 [] d = "2" -> 2 [] d = "3" -> 3]
Digits == DOMAIN DigitValue
Letters == {"a", "b"}

RECURSIVE LStrip(_)
LStrip(s) == IF s /= <<>> /\ Head(s) \in Whitespace THEN LStrip(Tail(s)) ELSE s

RECURSIVE RStrip(_)
RStrip(s) ==
    IF s /= <<>> /\ s[Len(s)] \in Whitespace THEN RStrip(SubSeq(s, 1, Len(s) - 1)) ELSE s

\* str.strip()
Strip(s) == RStrip(LStrip(s))

Lower(tok) == IF tok = "Heading" THEN "heading" ELSE tok

----------------------------------------------------------------------------
(* _is_revision_or_comment *)

IsRevisionOrComment(p) == p.Revisions > 0 \/ p.Comments > 0

(* _is_heading: style.startswith('Heading'), case-sensitive *)

IsHeading(style) == style /= <<>> /\ style[1] = "Heading"

(* _get_heading_level_from_style: re.search(r'Heading\s+(\d+)', IGNORECASE) *)

HeadingMatches(style) ==
    { m \in (1..Len(style)) \X (1..Len(style)) :
        /\ Lower(style[m[1]]) = "heading"
        /\ m[2] > m[1] + 1
        /\ \A k \in (m[1] + 1)..(m[2] - 1) : style[k] \in Whitespace
        /\ style[m[2]] \in Digits }

GetHeadingLevelFromStyle(style) ==
    IF HeadingMatches(style) /= {}
    THEN LET m == CHOOSE x \in HeadingMatches(style) :
                      \A y \in HeadingMatches(style) : x[1] <= y[1]
         IN DigitValue[style[m[2]]]
    ELSE 1

(* _create_list_item *)

\* re.sub(r'^\s*(?:\d+|[a-zA-Z])[).]\s*', '', text)
CleanedText(text) ==
    LET t == LStrip(text) IN
    IF Len(t) >= 2 /\ t[1] \in (Digits \cup Letters) /\ t[2] \in {")", "."}
    THEN LStrip(SubSeq(t, 3, Len(t)))
    ELSE text

\* the body of the try block; None - 1 raises TypeError
CreateListItemBody(p) ==
    IF p.ListLevelNumber = None
    THEN [raised |-> TRUE, value |-> None]
    ELSE [raised |-> FALSE,
          value |-> Some([number |-> p.ListString,
                          text |-> CleanedText(Strip(p.Text)),
                          level |-> p.ListLevelNumber[1] - 1,
                          children |-> <<>>])]

\* try: ... except Exception: return None
CreateListItem(p) ==
    LET r == CreateListItemBody(p) IN IF r.raised THEN None ELSE r.value

----------------------------------------------------------------------------
(* _add_list_item_to_content *)

\* the loop with its bound off by one: while len(list_stack) > level + 1
RECURSIVE PopToLevelOffByOne(_, _)
PopToLevelOffByOne(stack, level) ==
    IF Len(stack) > level + 1
    THEN IF stack = <<>>
         THEN [raised |-> TRUE, stack |-> stack]
         ELSE PopToLevelOffByOne(SubSeq(stack, 1, Len(stack) - 1), level)
    ELSE [raised |-> FALSE, stack |-> stack]

\* while len(list_stack) > list_item.level: list_stack.pop()
\* list.pop() of an empty list raises IndexError
RECURSIVE PopToLevel(_, _)
PopToLevel(stack, level) ==
    IF Len(stack) > level
    THEN IF stack = <<>>
         THEN [raised |-> TRUE, stack |-> stack]
         ELSE PopToLevel(SubSeq(stack, 1, Len(stack) - 1), level)
    ELSE [raised |-> FALSE, stack |-> stack]

\* parent.children.insert(0, list_item)
PrependChild(hp, parent, id) ==
    [hp EXCEPT ![parent].children = <<id>> \o @]

\* parent.children.append(list_item)
AppendChild(hp, parent, id) ==
    [hp EXCEPT ![parent].children = Append(@, id)]

\* the body with parent = list_stack[0] in place of list_stack[-1]
AddListItemBodyRootParent(id, items, stack, hp) ==
    LET u == PopToLevel(stack, hp[id].level) IN
    IF u.raised
    THEN [raised |-> TRUE, items |-> items, stack |-> u.stack, heap |-> hp]
    ELSE IF hp[id].level = 0 \/ u.stack = <<>>
    THEN [raised |-> FALSE, items |-> Append(items, id),
          stack |-> Append(u.stack, id), heap |-> hp]
    ELSE [raised |-> FALSE, items |-> items,
          stack |-> Append(u.stack, id),
          heap |-> AppendChild(hp, u.stack[1], id)]

\* the body attaching a child only when the stack is exactly as deep as the
\* item's level (if len(list_stack) == list_item.level), else at top level
AddListItemBodyExactDepth(id, items, stack, hp) ==
    LET u == PopToLevel(stack, hp[id].level) IN
    IF u.raised
    THEN [raised |-> TRUE, items |-> items, stack |-> u.stack, heap |-> hp]
    ELSE IF hp[id].level = 0 \/ Len(u.stack) /= hp[id].level
    THEN [raised |-> FALSE, items |-> Append(items, id),
          stack |-> Append(u.stack, id), heap |-> hp]
    ELSE [raised |-> FALSE, items |-> items,
          stack |-> Append(u.stack, id),
          heap |-> AppendChild(hp, u.stack[Len(u.stack)], id)]

\* the body without the push in the no-parent branch
AddListItemBodyNoPushOnFallback(id, items, stack, hp) ==
    LET u == PopToLevel(stack, hp[id].level) IN
    IF u.raised
    THEN [raised |-> TRUE, items |-> items, stack |-> u.stack, heap |-> hp]
    ELSE IF hp[id].level = 0
    THEN [raised |-> FALSE, items |-> Append(items, id),
          stack |-> Append(u.stack, id), heap |-> hp]
    ELSE IF u.stack /= <<>>
    THEN [raised |-> FALSE, items |-> items,
          stack |-> Append(u.stack, id),
          heap |-> AppendChild(hp, u.stack[Len(u.stack)], id)]
    ELSE [raised |-> FALSE, items |-> Append(items, id),
          stack |-> u.stack, heap |-> hp]

\* the body of the try block: the lists and objects as it leaves them, and
\* whether it raised
AddListItemBody(id, items, stack, hp) ==
    LET u == PopToLevel(stack, hp[id].level) IN
    IF u.raised
    THEN [raised |-> TRUE, items |-> items, stack |-> u.stack, heap |-> hp]
    ELSE IF hp[id].level = 0
    THEN [raised |-> FALSE, items |-> Append(items, id),
          stack |-> Append(u.stack, id), heap |-> hp]
    ELSE IF u.stack /= <<>>
    THEN [raised |-> FALSE, items |-> items,
          stack |-> Append(u.stack, id),
          heap |-> AppendChild(hp, u.stack[Len(u.stack)], id)]
    ELSE [raised |-> FALSE, items |-> Append(items, id),
          stack |-> Append(u.stack, id), heap |-> hp]

\* the body with no except clause around it
AddListItemUncaught(id, items, stack, hp) ==
    AddListItemBody(id, items, stack, hp)

\* try: ... except Exception: logging.warning(...)
AddListItemToContent(id, items, stack, hp) ==
    [AddListItemBody(id, items, stack, hp) EXCEPT !.raised = FALSE]

----------------------------------------------------------------------------
(* content[current_header] = {...}: a dict keeps the position of an        *)
(* existing key and replaces its value                                     *)

HasKey(d, k) == \E i \in 1..Len(d) : d[i].header = k

DictSet(d, k, lvl, items) ==
    IF HasKey(d, k)
    THEN [i \in 1..Len(d) |->
            IF d[i].header = k
            THEN [header |-> k, level |-> lvl, items |-> items]
            ELSE d[i]]
    ELSE Append(d, [header |-> k, level |-> lvl, items |-> items])

\* if current_header: content[current_header] = {...}
AddHeader(d, hdr, lvl, items) ==
    IF Truthy(hdr) THEN DictSet(d, hdr[1], lvl, items) ELSE d

----------------------------------------------------------------------------
(* The paragraphs a document may hold: what the pass reads of each         *)
(* (para.Style.NameLocal, para.Range.Text, Range.Revisions.Count,          *)
(* Range.Comments.Count, Range.ListFormat.ListType / ListLevelNumber /     *)
(* ListString)                                                             *)

Para(style, text, rev, com, ltype, lnum, lstr) ==
    [Style |-> style, Text |-> text, Revisions |-> rev, Comments |-> com,
     ListType |-> ltype, ListLevelNumber |-> lnum, ListString |-> lstr]

Heading1 == <<"Heading", " ", "1">>
ListStyle == <<"List", " ", "Paragraph">>

\* headers: a repeated text under two levels, a style with no parseable
\* level ("Heading2") and an empty header text
HeadingParagraphs ==
    { Para(Heading1, <<"Intro", "\r">>, 0, 0, 0, None, ""),
      Para(<<"Heading", " ", "2">>, <<"Intro", "\r">>, 0, 0, 0, None, ""),
      Para(Heading1, <<"Next", "\r">>, 0, 0, 0, None, ""),
      Para(<<"Heading", "2">>, <<"Next", "\r">>, 0, 0, 0, None, ""),
      Para(Heading1, <<"\r">>, 0, 0, 0, None, "") }

\* numbered paragraphs of every list level the model covers (Word numbers
\* levels from 1; 0 is below its range)
LevelParagraphs ==
    { Para(ListStyle, <<"a", "\r">>, 0, 0, 1, Some(n), "1.") :
        n \in 0..MaxListLevelNumber }

\* list paragraphs of levels 0, 1 and 2 (the last with an empty marker and
\* a typed enumerator), and one whose level cannot be read
StreamListParagraphs ==
    { Para(ListStyle, <<"a", "\r">>, 0, 0, 1, Some(0), "1."),
      Para(ListStyle, <<"a", "\r">>, 0, 0, 1, Some(1), "1."),
      Para(ListStyle, <<"1", ")", " ", "b", "\r">>, 0, 0, 1, Some(2), ""),
      Para(ListStyle, <<"a", "\r">>, 0, 0, 1, None, "1.") }

\* a commented list paragraph, a blank list paragraph and body text
OtherParagraphs ==
    { Para(ListStyle, <<"a", "\r">>, 0, 1, 1, Some(1), "1."),
      Para(ListStyle, <<" ", "\r">>, 0, 0, 1, Some(1), "1."),
      Para(<<"heading", " ", "1">>, <<"Intro", "\r">>, 0, 0, 0, None, "") }

\* the documents of Spec
StreamParagraphs == HeadingParagraphs \cup StreamListParagraphs \cup OtherParagraphs

\* the documents of ListSpec: one header and list items of every level
ListParagraphs ==
    LevelParagraphs \cup { Para(Heading1, <<"Intro", "\r">>, 0, 0, 0, None, "") }

----------------------------------------------------------------------------
(* _extract_content *)

Init ==
    /\ paras = <<>>
    /\ pc = "loop"
    /\ content = <<>>
    /\ current_header = None
    /\ current_header_level = 1
    /\ current_items = <<>>
    /\ list_stack = <<>>
    /\ heap = <<>>

\* for para in doc.Paragraphs: the next paragraph, of a document of at most
\* N paragraphs drawn from P
Reads(p, P, N) ==
    /\ pc = "loop"
    /\ Len(paras) < N
    /\ p \in P
    /\ paras' = Append(paras, p)

\* if self._is_revision_or_comment(para): continue
IgnoreRevisionOrComment(P, N) ==
    \E p \in P :
        /\ Reads(p, P, N)
        /\ IsRevisionOrComment(p)
        /\ UNCHANGED <<pc, content, current_header, current_header_level,
                       current_items, list_stack, heap>>

\* the header branch without its `list_stack = []`
HeadingKeepsStack(P, N) ==
    \E p \in P :
        /\ Reads(p, P, N)
        /\ ~IsRevisionOrComment(p)
        /\ IsHeading(p.Style)
        /\ content' = AddHeader(content, current_header, current_header_level,
                                current_items)
        /\ current_header' = Some(Strip(p.Text))
        /\ current_header_level' = GetHeadingLevelFromStyle(p.Style)
        /\ current_items' = <<>>
        /\ UNCHANGED <<pc, heap, list_stack>>

\* if self._is_heading(style): ... continue
Heading(P, N) ==
    \E p \in P :
        /\ Reads(p, P, N)
        /\ ~IsRevisionOrComment(p)
        /\ IsHeading(p.Style)
        /\ content' = AddHeader(content, current_header, current_header_level,
                                current_items)
        /\ current_header' = Some(Strip(p.Text))
        /\ current_header_level' = GetHeadingLevelFromStyle(p.Style)
        /\ current_items' = <<>>
        /\ list_stack' = <<>>
        /\ UNCHANGED <<pc, heap>>

\* if not text: continue
EmptyText(P, N) ==
    \E p \in P :
        /\ Reads(p, P, N)
        /\ ~IsRevisionOrComment(p)
        /\ ~IsHeading(p.Style)
        /\ Strip(p.Text) = <<>>
        /\ UNCHANGED <<pc, content, current_header, current_header_level,
                       current_items, list_stack, heap>>

\* if para.Range.ListFormat.ListType != 0: ...
ListParagraph(P, N) ==
    \E p \in P :
        /\ Reads(p, P, N)
        /\ ~IsRevisionOrComment(p)
        /\ ~IsHeading(p.Style)
        /\ Strip(p.Text) /= <<>>
        /\ p.ListType /= 0
        /\ LET list_item == CreateListItem(p)
               id == Len(paras) + 1
           IN IF TruthyItem(list_item)
              THEN LET r == AddListItemToContent(id, current_items, list_stack,
                                                 (id :> list_item[1]) @@ heap)
                   IN /\ current_items' = r.items
                      /\ list_stack' = r.stack
                      /\ heap' = r.heap
                      /\ pc' = IF r.raised THEN "raised" ELSE pc
              ELSE UNCHANGED <<pc, current_items, list_stack, heap>>
        /\ UNCHANGED <<content, current_header, current_header_level>>

\* the non-list branch also closing the open list (list_stack = [])
NonListParagraphEndsList(P, N) ==
    \E p \in P :
        /\ Reads(p, P, N)
        /\ ~IsRevisionOrComment(p)
        /\ ~IsHeading(p.Style)
        /\ Strip(p.Text) /= <<>>
        /\ p.ListType = 0
        /\ list_stack' = <<>>
        /\ UNCHANGED <<pc, content, current_header, current_header_level,
                       current_items, heap>>

\* else: continue
NonListParagraph(P, N) ==
    \E p \in P :
        /\ Reads(p, P, N)
        /\ ~IsRevisionOrComment(p)
        /\ ~IsHeading(p.Style)
        /\ Strip(p.Text) /= <<>>
        /\ p.ListType = 0
        /\ UNCHANGED <<pc, content, current_header, current_header_level,
                       current_items, list_stack, heap>>

\* the loop is over: the last header is added and content returned
EndOfDocument ==
    /\ pc = "loop"
    /\ pc' = "done"
    /\ content' = AddHeader(content, current_header, current_header_level,
                            current_items)
    /\ UNCHANGED <<paras, current_header, current_header_level, current_items,
                   list_stack, heap>>

Next ==
    \/ IgnoreRevisionOrComment(StreamParagraphs, MaxParagraphs)
    \/ Heading(StreamParagraphs, MaxParagraphs)
    \/ EmptyText(StreamParagraphs, MaxParagraphs)
    \/ ListParagraph(StreamParagraphs, MaxParagraphs)
    \/ NonListParagraph(StreamParagraphs, MaxParagraphs)
    \/ EndOfDocument

Spec == Init /\ [][Next]_vars

\* documents that are one header and list items only
ListNext ==
    \/ Heading(ListParagraphs, MaxListItems)
    \/ ListParagraph(ListParagraphs, MaxListItems)
    \/ EndOfDocument

ListSpec == Init /\ [][ListNext]_vars

----------------------------------------------------------------------------
(* Reading the state: sections, forests and the levels that were fed       *)

Range(f) == { f[i] : i \in DOMAIN f }

Max(S) == CHOOSE x \in S : \A y \in S : y <= x

\* positions of the paragraphs the pass took as headers
HeaderPositions ==
    { i \in 1..Len(paras) :
        ~IsRevisionOrComment(paras[i]) /\ IsHeading(paras[i].Style) }

\* the header position that opens the section paragraph i lies in (0 before
\* the first header)
SectionStart(i) == Max({0} \cup { h \in HeaderPositions : h < i })

\* the ListItem objects created in the section that is being built, i.e.
\* since the last header
CurrentSectionItems ==
    LET start == SectionStart(Len(paras) + 1) IN { id \in DOMAIN heap : id > start }

\* the ListItem objects of the current section created before id
Preceding(id) == { j \in CurrentSectionItems : j < id }

\* ids of a set in source order
RECURSIVE InOrder(_)
InOrder(S) ==
    IF S = {} THEN <<>>
    ELSE LET m == Max(S) IN Append(InOrder(S \ {m}), m)

\* the levels of the current section's list items, in source order
CurrentLevels == [k \in 1..Cardinality(CurrentSectionItems) |->
                    heap[InOrder(CurrentSectionItems)[k]].level]

\* every node of the forest under the sequence ids, paired with its depth
RECURSIVE Walk(_, _)
Walk(ids, d) ==
    UNION { {<<ids[k], d>>} \cup Walk(heap[ids[k]].children, d + 1) : k \in 1..Len(ids) }

\* the forests the state holds: the open section's and the stored ones
Forests == {current_items} \cup { content[k].items : k \in 1..Len(content) }

\* the nodes that list id among their children
Parents(id) == { j \in DOMAIN heap : id \in Range(heap[j].children) }

\* the levels fed up to and including id start at 0 and never rise by more
\* than 1 from one item to the next
WellFormedUpTo(id) ==
    LET ids == InOrder(Preceding(id) \cup {id}) IN
    /\ heap[ids[1]].level = 0
    /\ \A k \in 1..(Len(ids) - 1) : heap[ids[k + 1]].level <= heap[ids[k]].level + 1

Increasing(ids) == \A a, b \in 1..Len(ids) : a < b => ids[a] < ids[b]

----------------------------------------------------------------------------
(* C1: for every sequence of list items of non-negative levels, every node *)
(* of the forest has as many ancestors as its stored level.                *)
C1_DepthEqualsLevel ==
    \A f \in Forests : \A n \in Walk(f, 0) : n[2] = heap[n[1]].level

(* C1 as amended: every node of every forest has at most as many ancestors *)
(* as its stored level, and exactly as many when the levels fed to the     *)
(* section so far started at 0 and never rose by more than 1.              *)
C1_DepthAtMostLevel ==
    /\ \A f \in Forests : \A n \in Walk(f, 0) : n[2] <= heap[n[1]].level
    /\ \A n \in Walk(current_items, 0) :
          WellFormedUpTo(n[1]) => n[2] = heap[n[1]].level

C1_Witness ==
    /\ \E n \in Walk(current_items, 0) : n[2] = 2 /\ WellFormedUpTo(n[1])
    /\ \E n \in Walk(current_items, 0) : n[2] < heap[n[1]].level

(* C2: the top-level items of a section and the children of every node are *)
(* listed in the order their paragraphs occurred in the source.            *)
C2_SourceOrder ==
    /\ \A f \in Forests : Increasing(f)
    /\ \A id \in DOMAIN heap : Increasing(heap[id].children)

C2_Witness ==
    /\ Len(current_items) >= 2
    /\ \E id \in Range(current_items) : Len(heap[id].children) >= 2

\* the current section's list items, in source order
Fed == InOrder(CurrentSectionItems)

TopLevel(id) == id \in Range(current_items) /\ Parents(id) = {}

ChildOf(id, parent) ==
    /\ Parents(id) = {parent}
    /\ id \notin Range(current_items)

\* the nearest item before id whose level is lvl, as a set (empty if none)
NearestPreceding(id, lvl) ==
    LET c == { j \in Preceding(id) : heap[j].level = lvl }
    IN IF c = {} THEN {} ELSE {Max(c)}

(* C5: in a section whose levels start at 0 and never rise by more than 1, *)
(* every level-0 item is a top-level node and every item of level L > 0 is *)
(* a child of the nearest preceding item of level L-1; levels [0,1,1,0,1]  *)
(* give two top-level nodes, the first with two children and the second    *)
(* with one.                                                               *)
C5_WellFormedNesting ==
    /\ \A id \in CurrentSectionItems :
          WellFormedUpTo(id) =>
             /\ heap[id].level = 0 => TopLevel(id)
             /\ heap[id].level > 0 =>
                   \E q \in NearestPreceding(id, heap[id].level - 1) : ChildOf(id, q)
    /\ CurrentLevels = <<0, 1, 1, 0, 1>> =>
          /\ current_items = <<Fed[1], Fed[4]>>
          /\ heap[Fed[1]].children = <<Fed[2], Fed[3]>>
          /\ heap[Fed[4]].children = <<Fed[5]>>
          /\ \A k \in {2, 3, 5} : heap[Fed[k]].children = <<>>

C5_Witness == CurrentLevels = <<0, 1, 1, 0, 1>> /\ list_stack = <<Fed[4], Fed[5]>>

(* C6: a section whose list items have levels [2,2], with no shallower     *)
(* item before them, yields two top-level nodes, neither a child of the    *)
(* other.                                                                  *)
C6_TwoTopLevelNodes ==
    CurrentLevels = <<2, 2>> =>
        /\ current_items = <<Fed[1], Fed[2]>>
        /\ TopLevel(Fed[1])
        /\ TopLevel(Fed[2])

----------------------------------------------------------------------------
(* What the document held, section by section *)

\* header positions in source order
Headers == InOrder(HeaderPositions)

HeaderText(h) == Strip(paras[h].Text)

\* the list items (paragraphs that _create_list_item made a ListItem of)
\* between header h and the next header (h = 0: before the first header)
ListItemsOf(h) == { id \in DOMAIN heap : SectionStart(id) = h }

\* the nodes of a forest
Nodes(items) == { n[1] : n \in Walk(items, 0) }

(* C3: the tree holds one Section per header paragraph processed, in       *)
(* source order; headers with identical text are kept as distinct Sections *)
(* each with its own level and items.  (Stated for documents whose header  *)
(* texts are all non-empty.)                                               *)
C3_OneSectionPerHeader ==
    (pc = "done" /\ \A h \in HeaderPositions : HeaderText(h) /= <<>>) =>
        /\ Len(content) = Len(Headers)
        /\ \A k \in 1..Len(content) :
              /\ content[k].header = HeaderText(Headers[k])
              /\ content[k].level = GetHeadingLevelFromStyle(paras[Headers[k]].Style)
              /\ Nodes(content[k].items) \subseteq ListItemsOf(Headers[k])

(* C4: list items before the first header are kept under a leading Section *)
(* with empty header text; a document with list items and no header yields *)
(* exactly one Section, with empty header text, holding all of them.       *)
(* (Stated for the items of non-negative level.)                           *)
C4_LeadingSection ==
    LET leading == { id \in ListItemsOf(0) : heap[id].level >= 0 } IN
    (pc = "done" /\ leading /= {}) =>
        /\ content /= <<>>
        /\ content[1].header = <<>>
        /\ leading \subseteq Nodes(content[1].items)
        /\ HeaderPositions = {} => Len(content) = 1

(* C8: each Section holds exactly the list items whose paragraphs lie      *)
(* between its header and the next header (or the end), and no item of     *)
(* another section; Header(1,"Intro"), Item(0,"a"), Header(1,"Next"),      *)
(* Item(0,"b") yields Sections "Intro" and "Next", in that order, each     *)
(* with exactly one top-level item.                                        *)
C8_SectionHoldsItsItems ==
    pc = "done" =>
        \A k \in 1..Len(content) :
            \E h \in HeaderPositions :
                /\ HeaderText(h) = content[k].header
                /\ Nodes(content[k].items) = ListItemsOf(h)

(* C9: every section opened by a header paragraph, whatever the header's   *)
(* text and whether or not it has list items, is appended to the tree: at  *)
(* the next header, and at the end of the document for the last one.       *)
C9_OpenedSectionAppended ==
    \A h \in HeaderPositions :
        (pc = "done" \/ \E g \in HeaderPositions : g > h) =>
            \E k \in 1..Len(content) : content[k].header = HeaderText(h)

(* C10: the pass never aborts on malformed input: whatever the paragraphs  *)
(* (level jumps with no open ancestor, empty markers, out-of-range or      *)
(* unreadable list levels, unparseable heading styles), no exception       *)
(* leaves the pass, and every list item of non-negative level fed to the   *)
(* section being built is in its forest, anomalies before it or not.       *)
C10_NeverRaises ==
    /\ pc \in {"loop", "done"}
    /\ \A id \in CurrentSectionItems :
          heap[id].level >= 0 => id \in Nodes(current_items)

C10_Witness ==
    /\ pc = "done"
    /\ Len(paras) = MaxParagraphs
    /\ \E i \in 1..Len(paras) : i \in DOMAIN heap /\ heap[i].level < 0
    /\ \E i \in 1..Len(paras) :
          paras[i].ListType /= 0 /\ paras[i].ListLevelNumber = None
    /\ \E id \in Range(current_items) : heap[id].level = 1 /\ heap[id].number = ""
    /\ \E h \in HeaderPositions : HeadingMatches(paras[h].Style) = {}

----------------------------------------------------------------------------
\* the source paragraph of a ListItem
SourceLevelNumber(id) == paras[id].ListLevelNumber[1]

(* C11: the stored level of a list item is the source list level minus 1,  *)
(* clamped to be >= 0: for every source list level (including 0) the item  *)
(* has a non-negative level and is placed in the section's forest.         *)
C11_LevelClamped ==
    \A id \in CurrentSectionItems :
        /\ heap[id].level >= 0
        /\ heap[id].level = IF SourceLevelNumber(id) >= 1
                            THEN SourceLevelNumber(id) - 1 ELSE 0
        /\ id \in Nodes(current_items)

(* C12: in every reachable state the path stack holds at most one node per *)
(* depth and the index of each node in the stack (0 = shallowest) equals   *)
(* that node's level.                                                      *)
C12_StackIndexIsLevel ==
    /\ \A k \in 1..Len(list_stack) : heap[list_stack[k]].level = k - 1
    /\ \A a, b \in 1..Len(list_stack) :
          a /= b => heap[list_stack[a]].level /= heap[list_stack[b]].level


\* the number of ancestors of a node (each node has at most one parent)
RECURSIVE Depth(_)
Depth(id) ==
    IF Parents(id) = {} THEN 0 ELSE 1 + Depth(CHOOSE j \in Parents(id) : TRUE)

(* C12 as amended: in every reachable state the path stack holds exactly   *)
(* one node per depth (the node at index k, 0 = shallowest, has exactly k  *)
(* ancestors) and the index of each node is at most that node's level; it  *)
(* equals the level when the levels fed to the section up to that node     *)
(* start at 0 and never rise by more than 1.                               *)
C12_StackIndexAtMostLevel ==
    \A k \in 1..Len(list_stack) :
        /\ Depth(list_stack[k]) = k - 1
        /\ k - 1 <= heap[list_stack[k]].level
        /\ WellFormedUpTo(list_stack[k]) => heap[list_stack[k]].level = k - 1

C12_Witness ==
    /\ Len(list_stack) = 2
    /\ WellFormedUpTo(list_stack[1])
    /\ heap[list_stack[2]].level = 2
    /\ Len(current_items) = 2


(* C13: a header boundary fully discards list nesting state: right after a *)
(* header paragraph is processed the path stack and the item buffer are    *)
(* empty, so no list item that follows a header is ever attached as a      *)
(* child of a node that preceded that header, whatever its level.          *)
C13_HeaderDiscardsNesting ==
    /\ Len(paras) \in HeaderPositions => list_stack = <<>> /\ current_items = <<>>
    /\ Range(list_stack) \cup Range(current_items) \subseteq CurrentSectionItems
    /\ \A id \in DOMAIN heap :
          \A j \in Parents(id) : SectionStart(j) = SectionStart(id)

C13_Witness ==
    \E h \in HeaderPositions :
        /\ \E j \in DOMAIN heap : j < h /\ heap[j].level = 0 /\ j = h - 1
        /\ \E id \in Range(current_items) : id > h /\ heap[id].level = 1


\* a paragraph the pass passes over: a revision or comment, or, not being a
\* header, one with empty text or with no list numbering (body text)
PassedOver(p) ==
    \/ IsRevisionOrComment(p)
    \/ ~IsHeading(p.Style) /\ (Strip(p.Text) = <<>> \/ p.ListType = 0)

(* C14: plain-text paragraphs, empty paragraphs and paragraphs filtered as *)
(* revisions or comments leave the whole reconstruction state unchanged    *)
(* (current header and level, item buffer, path stack, stored sections and *)
(* the list items themselves), so a list item following such a paragraph   *)
(* is attached under the same parent as if the paragraph were absent.      *)
C14_PassedOverLeavesState ==
    /\ [][(paras' /= paras /\ PassedOver(paras'[Len(paras')])) =>
             UNCHANGED <<pc, content, current_header, current_header_level,
                         current_items, list_stack, heap>>]_vars
    /\ [](\A i \in 2..(Len(paras) - 1) :
            (/\ PassedOver(paras[i])
             /\ {i - 1, i + 1} \subseteq DOMAIN heap
             /\ heap[i - 1].level >= 0
             /\ heap[i + 1].level = heap[i - 1].level + 1)
            => Parents(i + 1) = {i - 1})

C14_Witness ==
    \E i \in 2..(Len(paras) - 1) :
        /\ PassedOver(paras[i])
        /\ paras[i].ListType = 0
        /\ {i - 1, i + 1} \subseteq DOMAIN heap
        /\ Parents(i + 1) = {i - 1}
        /\ list_stack = <<i - 1, i + 1>>


\* how many times id is listed in the sequence ids
CountIn(ids, id) == Cardinality({ k \in 1..Len(ids) : ids[k] = id })

RECURSIVE SumOver(_, _)
SumOver(S, id) ==
    IF S = {} THEN 0
    ELSE LET j == CHOOSE x \in S : TRUE
         IN CountIn(heap[j].children, id) + SumOver(S \ {j}, id)

\* how many times id is listed in the open section: among its top-level
\* items and in the children of every node
Occurrences(id) == CountIn(current_items, id) + SumOver(DOMAIN heap, id)

(* C15: every list item classified within a section that is appended to    *)
(* the tree appears exactly once in that section's forest, as a top-level   *)
(* item or as a child of exactly one node: no item is lost or duplicated    *)
(* and no node has two parents.  (Stated of the section as it is stored:    *)
(* at the end of the document, under a header that is stored.)              *)
C15_EachItemExactlyOnce ==
    (pc = "done" /\ Truthy(current_header)) =>
        \A id \in CurrentSectionItems :
            /\ Occurrences(id) = 1
            /\ Cardinality(Parents(id)) <= 1
            /\ \E k \in 1..Len(content) : id \in Nodes(content[k].items)


(* C16: after _add_list_item_to_content processes an item of level L >= 0, *)
(* that item is the deepest entry of the path stack, the stack length is   *)
(* at most L+1 and the item has at most L ancestors; the stack, whenever   *)
(* it is not empty, is exactly the chain from a top-level item of the      *)
(* current section down to the most recently added item.                   *)
C16_StackIsPathToLastItem ==
    /\ list_stack /= <<>> =>
          /\ TopLevel(list_stack[1])
          /\ \A k \in 2..Len(list_stack) : ChildOf(list_stack[k], list_stack[k - 1])
          /\ list_stack[Len(list_stack)] = Max(Nodes(current_items))
    /\ \A id \in CurrentSectionItems :
          (id = Max(CurrentSectionItems) /\ heap[id].level >= 0) =>
              /\ list_stack /= <<>>
              /\ list_stack[Len(list_stack)] = id
              /\ Len(list_stack) <= heap[id].level + 1
              /\ Depth(id) <= heap[id].level

C16_Witness ==
    /\ Len(list_stack) = 2
    /\ Len(current_items) = 2
    /\ heap[list_stack[2]].level = 2
    /\ heap[list_stack[1]].level = 1
    /\ list_stack[2] = Max(CurrentSectionItems)

====
